---- MODULE Spec2Model ----
(***************************************************************************)
(* Model of moment-db (src/index.js): the ANSI date/time codec MomentDB.   *)
(*                                                                         *)
(* A JavaScript Date holds a time value in milliseconds since the epoch.   *)
(* Those values do not fit the 32-bit integers of the model checker, so a  *)
(* time value t is the pair [day, ms] with t = day * 86400000 + ms and     *)
(* 0 <= ms < 86400000.  All arithmetic on time values is exact.            *)
(* Text is a sequence of one-character strings.                            *)
(***************************************************************************)
EXTENDS Integers, Sequences, FiniteSets

\* ------------------------------------------------------------------------
\* ECMAScript Date built-ins used by src/index.js
\* ------------------------------------------------------------------------
msPerDay == 86400000

secPerDay == 86400

Max(S) == CHOOSE x \in S : \A y \in S : y <= x

Min(S) == CHOOSE x \in S : \A y \in S : x <= y

Abs(n) == IF n < 0 THEN -n ELSE n

\* MakeDate(day, time): the time value of day `day' plus `time' ms.
MakeDate(day, time) == [day |-> day + (time \div msPerDay), ms |-> time % msPerDay]

\* Days since the epoch of the civil date (y, m, d), m in 1..12.
\* The year yy counts from March 1, mp is the month counted from March.
DaysOfYoe(era, yoe, doy) ==
  era * 146097 + (yoe * 365 + (yoe \div 4) - (yoe \div 100) + doy) - 719468

DaysOfEra(era, yy, doy) == DaysOfYoe(era, yy - era * 400, doy)

DaysOfShifted(yy, mp, d) == DaysOfEra(yy \div 400, yy, ((153 * mp + 2) \div 5) + d - 1)

DaysFromCivil(y, m, d) ==
  DaysOfShifted(IF m <= 2 THEN y - 1 ELSE y, IF m > 2 THEN m - 3 ELSE m + 9, d)

\* YearFromTime, MonthFromTime (1-based here) and DateFromTime of a day number:
\* the 400-year era, the day of the era (doe), the year of the era (yoe), the
\* day of the year counted from March 1 (doy) and the month counted from March (mp).
CivilOfMonth(y, m, d) == [y |-> y + (IF m <= 2 THEN 1 ELSE 0), m |-> m, d |-> d]

CivilOfMp(y, doy, mp) ==
  CivilOfMonth(y, IF mp < 10 THEN mp + 3 ELSE mp - 9, doy - ((153 * mp + 2) \div 5) + 1)

CivilOfDoy(y, doy) == CivilOfMp(y, doy, (5 * doy + 2) \div 153)

CivilOfYoe(era, doe, yoe) ==
  CivilOfDoy(yoe + era * 400, doe - (365 * yoe + (yoe \div 4) - (yoe \div 100)))

CivilOfDoe(era, doe) ==
  CivilOfYoe(era, doe, (doe - (doe \div 1460) + (doe \div 36524) - (doe \div 146096)) \div 365)

CivilOfEra(zz, era) == CivilOfDoe(era, zz - era * 146097)

CivilFromDays(z) == CivilOfEra(z + 719468, (z + 719468) \div 146097)

\* MakeDay(year, month, date) with a 0-based month that may lie outside 0..11
\* and a date that may lie outside the month: both carry over.
MakeDay(year, month, date) ==
  DaysFromCivil(year + (month \div 12), (month % 12) + 1, 1) + date - 1

\* Date.UTC(year, month, date): a year in 0..99 means 1900 + year.
DateUTC(year, month, date) ==
  [day |-> MakeDay(IF year \in 0..99 THEN 1900 + year ELSE year, month, date), ms |-> 0]

HourOf(t) == t.ms \div 3600000

MinuteOf(t) == (t.ms \div 60000) % 60

SecondOf(t) == (t.ms \div 1000) % 60

MilliOf(t) == t.ms % 1000

\* LocalTime(t) = t + LocalTZA on a host whose getTimezoneOffset() is `off'
\* minutes (UTC - local); UTCTime is its inverse.
LocalTime(t, off) == MakeDate(t.day, t.ms - off * 60000)

UTCTime(t, off) == MakeDate(t.day, t.ms + off * 60000)

\* The setUTC* methods; each recomputes the time value from the fields of t.
\* c is the civil date of t before the call.
WithYear(c, ms, y) == [day |-> MakeDay(y, c.m - 1, c.d), ms |-> ms]

WithMonth(c, ms, m) == [day |-> MakeDay(c.y, m, c.d), ms |-> ms]

WithDate(c, ms, d) == [day |-> MakeDay(c.y, c.m - 1, d), ms |-> ms]

SetUTCFullYear(t, y) == WithYear(CivilFromDays(t.day), t.ms, y)

SetUTCMonth(t, m) == WithMonth(CivilFromDays(t.day), t.ms, m)

SetUTCDate(t, d) == WithDate(CivilFromDays(t.day), t.ms, d)

SetUTCHours(t, h) ==
  MakeDate(t.day, h * 3600000 + MinuteOf(t) * 60000 + SecondOf(t) * 1000 + MilliOf(t))

SetUTCMinutes(t, mi) ==
  MakeDate(t.day, HourOf(t) * 3600000 + mi * 60000 + SecondOf(t) * 1000 + MilliOf(t))

SetUTCSeconds(t, s) ==
  MakeDate(t.day, HourOf(t) * 3600000 + MinuteOf(t) * 60000 + s * 1000 + MilliOf(t))

SetUTCMilliseconds(t, f) ==
  MakeDate(t.day, HourOf(t) * 3600000 + MinuteOf(t) * 60000 + SecondOf(t) * 1000 + f)

\* t + n * unit for a unit given in whole seconds (n * unit * 1000 in ms).
PlusDaysAndSeconds(t, days, secs) ==
  MakeDate(t.day + days + (secs \div secPerDay), t.ms + (secs % secPerDay) * 1000)

PlusUnits(t, n, unitSec) ==
  PlusDaysAndSeconds(t, n * (unitSec \div secPerDay), n * (unitSec % secPerDay))

\* t1 < t2 on time values.
Before(t1, t2) == t1.day < t2.day \/ (t1.day = t2.day /\ t1.ms < t2.ms)

\* ------------------------------------------------------------------------
\* String built-ins
\* ------------------------------------------------------------------------
DigitChars == <<"0", "1", "2", "3", "4", "5", "6", "7", "8", "9">>

IsDigit(c) == \E i \in 1..10 : DigitChars[i] = c

DigitVal(c) == (CHOOSE i \in 1..10 : DigitChars[i] = c) - 1

RECURSIVE NatToString(_)
\* String(n) for n >= 0
NatToString(n) ==
  IF n < 10 THEN <<DigitChars[n + 1]>>
  ELSE Append(NatToString(n \div 10), DigitChars[(n % 10) + 1])

\* String(n)
NumToString(n) == IF n < 0 THEN <<"-">> \o NatToString(-n) ELSE NatToString(n)

\* s.slice(-k)
SliceLast(s, k) == IF Len(s) <= k THEN s ELSE SubSeq(s, Len(s) - k + 1, Len(s))

\* The least of the 1-based positions hits, 0 when there is none.
FirstOf(hits) == IF hits = {} THEN 0 ELSE Min(hits)

\* s.indexOf(sub), 0-based, -1 when absent
IndexOf(s, sub) ==
  FirstOf({i \in 1..(Len(s) - Len(sub) + 1) : SubSeq(s, i, i + Len(sub) - 1) = sub}) - 1

RECURSIVE Split(_, _)
\* s cut at the 1-based position i of the separator c (i = 0: no separator)
SplitAt(s, c, i) ==
  IF i = 0 THEN <<s>>
  ELSE <<SubSeq(s, 1, i - 1)>> \o Split(SubSeq(s, i + 1, Len(s)), c)

\* s.split(c): the pieces of s between the occurrences of the character c
Split(s, c) == SplitAt(s, c, FirstOf({i \in 1..Len(s) : s[i] = c}))

RemoveAt(s, i) == IF i = 0 THEN s ELSE SubSeq(s, 1, i - 1) \o SubSeq(s, i + 1, Len(s))

\* s.replace(c, ''): drops the first occurrence of the character c
RemoveFirst(s, c) == RemoveAt(s, FirstOf({i \in 1..Len(s) : s[i] = c}))

RECURSIVE ParseDigits(_, _)
ParseDigits(s, acc) ==
  IF s = <<>> \/ ~IsDigit(Head(s)) THEN acc
  ELSE ParseDigits(Tail(s), acc * 10 + DigitVal(Head(s)))

\* parseInt(s) for a text that starts with an optional sign and a digit
ParseInt(s) ==
  IF s # <<>> /\ Head(s) = "-" THEN -ParseDigits(Tail(s), 0)
  ELSE IF s # <<>> /\ Head(s) = "+" THEN ParseDigits(Tail(s), 0)
  ELSE ParseDigits(s, 0)

\* The year of toISOString: 4 digits, or a sign and 6 digits outside 0..9999
ISOYear(y) ==
  IF y \in 0..9999 THEN SliceLast(<<"0", "0", "0", "0">> \o NatToString(y), 4)
  ELSE (IF y < 0 THEN <<"-">> ELSE <<"+">>)
         \o SliceLast(<<"0", "0", "0", "0", "0", "0">> \o NatToString(Abs(y)), 6)

\* toISOString of the time value t whose civil date is c
ISOText(c, t) ==
  ISOYear(c.y) \o <<"-">> \o SliceLast(<<"0", "0">> \o NatToString(c.m), 2)
          \o <<"-">> \o SliceLast(<<"0", "0">> \o NatToString(c.d), 2)
          \o <<"T">> \o SliceLast(<<"0", "0">> \o NatToString(HourOf(t)), 2)
          \o <<":">> \o SliceLast(<<"0", "0">> \o NatToString(MinuteOf(t)), 2)
          \o <<":">> \o SliceLast(<<"0", "0">> \o NatToString(SecondOf(t)), 2)
          \o <<".">> \o SliceLast(<<"0", "0", "0">> \o NatToString(MilliOf(t)), 3)
          \o <<"Z">>

\* Date.prototype.toISOString
ToISOString(t) == ISOText(CivilFromDays(t.day), t)

\* ------------------------------------------------------------------------
\* Regular expressions (String.prototype.match without the g flag)
\* ------------------------------------------------------------------------
\* A regular expression is a sequence of tokens:
\*   lit  : the character c
\*   dig  : the group (\d{lo,hi})
\*   sign : the group ([+-])
\*   sdig : the group ([+-]\d{lo,hi})
Lit(ch) == [t |-> "lit", c |-> ch, lo |-> 0, hi |-> 0]

Dig(l, h) == [t |-> "dig", c |-> "", lo |-> l, hi |-> h]

Sign == [t |-> "sign", c |-> "", lo |-> 0, hi |-> 0]

SDig(l, h) == [t |-> "sdig", c |-> "", lo |-> l, hi |-> h]

NoMatch == [ok |-> FALSE, g |-> <<>>]

AllDigits(s, from, n) == from + n - 1 <= Len(s) /\ \A j \in from..(from + n - 1) : IsDigit(s[j])

IsSignAt(s, p) == p <= Len(s) /\ s[p] \in {"+", "-"}

\* The match m, or else the match alt.
OrElse(m, alt) == IF m.ok THEN m ELSE alt

\* The match of a group followed by the match `rest' of what follows it.
Group(text, rest) == IF rest.ok THEN [ok |-> TRUE, g |-> <<text>> \o rest.g] ELSE NoMatch

RECURSIVE RxMatchAt(_, _, _, _)
RECURSIVE RxMatchDigits(_, _, _, _, _, _)
\* A quantified group at position p that takes n digits after `lead' leading
\* characters: the longest n for which the rest of rx matches, giving back
\* one digit at a time (greedy quantifier).
RxMatchDigits(rx, k, s, p, lead, n) ==
  IF n < rx[k].lo THEN NoMatch
  ELSE IF ~AllDigits(s, p + lead, n) THEN RxMatchDigits(rx, k, s, p, lead, n - 1)
  ELSE OrElse(Group(SubSeq(s, p, p + lead + n - 1), RxMatchAt(rx, k + 1, s, p + lead + n)),
              RxMatchDigits(rx, k, s, p, lead, n - 1))

\* The match of the tokens k.. of rx against s at position p.
RxMatchAt(rx, k, s, p) ==
  IF k > Len(rx) THEN [ok |-> TRUE, g |-> <<>>]
  ELSE CASE rx[k].t = "lit" ->
              IF p <= Len(s) /\ s[p] = rx[k].c THEN RxMatchAt(rx, k + 1, s, p + 1) ELSE NoMatch
         [] rx[k].t = "sign" ->
              IF IsSignAt(s, p) THEN Group(<<s[p]>>, RxMatchAt(rx, k + 1, s, p + 1)) ELSE NoMatch
         [] rx[k].t = "dig" -> RxMatchDigits(rx, k, s, p, 0, rx[k].hi)
         [] rx[k].t = "sdig" ->
              IF IsSignAt(s, p) THEN RxMatchDigits(rx, k, s, p, 1, rx[k].hi) ELSE NoMatch

RECURSIVE RxMatchFrom(_, _, _)
\* The leftmost match of rx in s at or after position p.
RxMatchFrom(rx, s, p) ==
  IF p > Len(s) + 1 THEN NoMatch
  ELSE OrElse(RxMatchAt(rx, 1, s, p), RxMatchFrom(rx, s, p + 1))

\* s.match(rx): the groups of the leftmost match, or no match (null)
RxMatch(rx, s) == RxMatchFrom(rx, s, 1)

\* ------------------------------------------------------------------------
\* src/index.js: constants
\* ------------------------------------------------------------------------
DATE == <<"Y", "Y", "Y", "Y", "-", "M", "M", "-", "D", "D">>

TIME == <<"H", "H", ":", "M", "I", ":", "S", "S", ".", "F", "F", "F">>

ZONE == <<"[", "+", "|", "-", "]", "T", "H", ":", "T", "M">>

YEAR_TO_MONTH == <<"[", "+", "|", "-", "]", "Y", "E", "A", "R", "S", "-", "M", "M">>

DAY_TO_SEC == <<"[", "+", "|", "-", "]", "D", "A", "Y", "S", " ">> \o TIME

DATE_RX == <<Dig(4, 4), Lit("-"), Dig(1, 2), Lit("-"), Dig(1, 2)>>

TIME_RX == <<Dig(2, 2), Lit(":"), Dig(2, 2), Lit(":"), Dig(2, 2), Lit("."), Dig(3, 3)>>

ZONE_RX == <<Sign, Dig(1, 2), Lit(":"), Dig(1, 2)>>

YEAR_TO_MONTH_RX == <<SDig(1, 4), Lit("-"), Dig(1, 2)>>

DAY_TO_SEC_RX == <<SDig(1, 7)>>

\* The regular expression of each name an entry point passes in rxs.
RxOf(name) ==
  CASE name = "DATE_RX" -> DATE_RX
    [] name = "TIME_RX" -> TIME_RX
    [] name = "ZONE_RX" -> ZONE_RX
    [] name = "YEAR_TO_MONTH_RX" -> YEAR_TO_MONTH_RX
    [] name = "DAY_TO_SEC_RX" -> DAY_TO_SEC_RX

\* 3.1556952e+10 ms, the year length unformat adds per year, in seconds
UnformatYearSec == 31556952

\* 8.64e+7 ms, the day length unformat adds per day, in seconds
UnformatDaySec == 86400

\* 3.1536e+10 ms, the year length interval divides by, in seconds
IntervalYearSec == 31536000

\* 8.6401e+7 ms, the day length interval divides by, in seconds
IntervalDaySec == 86401

\* ------------------------------------------------------------------------
\* src/index.js: timezone and interval
\* ------------------------------------------------------------------------
Pad(zeros, n, width) == SliceLast(zeros \o NumToString(n), width)

\* timezone with the sign of the raw getTimezoneOffset() value
timezoneRawSign(date, offset) ==
  (IF offset < 0 THEN <<"-">> ELSE <<"+">>)
    \o Pad(<<"0", "0">>, Abs(offset) \div 60, 2) \o <<":">> \o Pad(<<"0", "0">>, Abs(offset) % 60, 2)

\* timezone(date) on a host where date.getTimezoneOffset() returns offset
timezone(date, offset) ==
  (IF offset < 0 THEN <<"+">> ELSE <<"-">>)
    \o Pad(<<"0", "0">>, Abs(offset) \div 60, 2) \o <<":">> \o Pad(<<"0", "0">>, Abs(offset) % 60, 2)

\* Date.UTC(l.y, l.m - 1, l.d) of the local civil date l
CivilAsUTC(l) == DateUTC(l.y, l.m - 1, l.d)

\* Date.UTC(d.getFullYear(), d.getMonth(), d.getDate()): the local calendar
\* date of d read as a UTC midnight
LocalMidnightAsUTC(d, off) == CivilAsUTC(CivilFromDays(LocalTime(d, off).day))

RECURSIVE ScaledDiv(_, _, _, _)
\* floor((q + r / u) * f1 * f2 * ...) for the factors fs, without forming the product
ScaledDiv(q, r, fs, u) ==
  IF fs = <<>> THEN q
  ELSE ScaledDiv(q * Head(fs) + ((r * Head(fs)) \div u), (r * Head(fs)) % u, Tail(fs), u)

\* Math.floor(days * 8.64e+7 / (unitSec * 1000))
FloorDaysOver(days, unitSec) == ScaledDiv(days \div unitSec, days % unitSec, <<24, 60, 60>>, unitSec)

\* lines 257-259 of interval, for the midnights utc1 and utc2
IntervalText(isDayToSec, utc1, utc2, to) ==
  (IF Before(utc1, utc2) THEN <<"-">> ELSE <<"+">>)
    \o (IF isDayToSec
        THEN Pad(<<"0", "0", "0", "0", "0", "0", "0">>,
                 Abs(FloorDaysOver(Max({utc1.day, utc2.day}) - Min({utc1.day, utc2.day}), IntervalDaySec)), 7)
        ELSE Pad(<<"0", "0", "0", "0">>,
                 Abs(FloorDaysOver(Max({utc1.day, utc2.day}) - Min({utc1.day, utc2.day}), IntervalYearSec)), 4))
    \o (IF isDayToSec THEN <<" ">> ELSE <<"-">>) \o to

interval(isDayToSec, dates, off) ==
  IntervalText(isDayToSec, LocalMidnightAsUTC(dates[1], off), LocalMidnightAsUTC(dates[2], off),
               IF isDayToSec THEN RemoveFirst(Split(ToISOString(dates[3]), "T")[2], "Z")
               ELSE Pad(<<"0", "0">>, CivilFromDays(LocalTime(dates[3], off).day).m, 2))

\* ------------------------------------------------------------------------
\* src/index.js: format
\* ------------------------------------------------------------------------
\* lines 141-144: the time from the local fields of a Date
LocalFieldsText(local) ==
  Pad(<<"0", "0">>, HourOf(local), 2) \o <<":">> \o Pad(<<"0", "0">>, MinuteOf(local), 2) \o <<":">>
    \o Pad(<<"0", "0">>, SecondOf(local), 2) \o <<".">> \o Pad(<<"0", "0", "0">>, MilliOf(local), 3)

\* lines 150-151: the parts joined by single spaces
FormatJoin(date, time, zone, intvl) ==
  date \o (IF date # <<>> /\ time # <<>> THEN <<" ">> ELSE <<>>) \o time
       \o (IF (date # <<>> \/ time # <<>>) /\ zone # <<>> THEN <<" ">> ELSE <<>>) \o zone
       \o (IF (date # <<>> \/ time # <<>> \/ zone # <<>>) /\ intvl # <<>> THEN <<" ">> ELSE <<>>)
       \o intvl

\* lines 139-148: isDts says that the DAY_TO_SEC branch of line 148 is taken,
\* which also empties time
FormatParts(frmt, dates, off, useZone, dts, isYtm, isDts) ==
  FormatJoin(IF IndexOf(frmt, DATE) >= 0 THEN dts[1] ELSE <<>>,
             IF IndexOf(frmt, TIME) >= 0 /\ ~isDts
             THEN IF useZone THEN LocalFieldsText(LocalTime(dates[1], off))
                  ELSE RemoveFirst(dts[2], "Z")
             ELSE <<>>,
             IF useZone THEN timezone(dates[1], off) ELSE <<>>,
             IF isYtm THEN interval(FALSE, dates, off)
             ELSE IF isDts THEN interval(TRUE, dates, off) ELSE <<>>)

FormatKinds(frmt, dates, off, isYtm) ==
  FormatParts(frmt, dates, off, IndexOf(frmt, ZONE) >= 0, Split(ToISOString(dates[1]), "T"),
              isYtm, ~isYtm /\ IndexOf(frmt, DAY_TO_SEC) >= 0)

format(frmt, dates, off) == FormatKinds(frmt, dates, off, IndexOf(frmt, YEAR_TO_MONTH) >= 0)

\* ------------------------------------------------------------------------
\* src/index.js: unformat
\* ------------------------------------------------------------------------
\* A variable that may be undefined.
Undefined == [def |-> FALSE, v |-> 0]

Val(x) == [def |-> TRUE, v |-> x]

NoDate == [def |-> FALSE, v |-> [day |-> 0, ms |-> 0]]

\* rxs.includes(RX) && formatted.match(RX)
Attempt(rxs, name, formatted) ==
  IF name \in rxs THEN RxMatch(RxOf(name), formatted) ELSE NoMatch

\* refDate instanceof Date ? refDate : new Date()
RefOrNow(refDate, now) == IF refDate.type = "Date" THEN refDate.t ELSE now

\* A number is truthy unless it is 0 (or undefined).
Truthy(time) == time.def /\ time.v # [day |-> 0, ms |-> 0]

SetUTCField(t, field, v) ==
  CASE field = "FullYear" -> SetUTCFullYear(t, v)
    [] field = "Month" -> SetUTCMonth(t, v)
    [] field = "Date" -> SetUTCDate(t, v)
    [] field = "Hours" -> SetUTCHours(t, v)
    [] field = "Minutes" -> SetUTCMinutes(t, v)
    [] field = "Seconds" -> SetUTCSeconds(t, v)
    [] field = "Milliseconds" -> SetUTCMilliseconds(t, v)

\* date[`set${type}X`](v): the UTC setter when type = 'UTC', else the local one
SetField(date, field, v, isUTC, off) ==
  IF isUTC THEN SetUTCField(date, field, v)
  ELSE UTCTime(SetUTCField(LocalTime(date, off), field, v), off)

\* if (x !== undefined) date[`set${type}X`](x)
SetIfDefined(date, field, x, isUTC, off) ==
  IF x.def THEN SetField(date, field, x.v, isUTC, off) ELSE date

\* the YEAR_TO_MONTH component with the year length interval divides by
UnformatYtmIntervalYear(e, ytm, refDate, now) ==
  IF ytm.ok
  THEN [e EXCEPT !.date = Val(PlusUnits(RefOrNow(refDate, now), ParseInt(ytm.g[1]), IntervalYearSec)),
                 !.mm = Val(ParseInt(ytm.g[2]) - 1), !.dd = Val(1),
                 !.hh = Val(0), !.mi = Val(0), !.ss = Val(0), !.fff = Val(0)]
  ELSE e

\* lines 171-177: the YEAR_TO_MONTH component
UnformatYtm(e, ytm, refDate, now) ==
  IF ytm.ok
  THEN [e EXCEPT !.date = Val(PlusUnits(RefOrNow(refDate, now), ParseInt(ytm.g[1]), UnformatYearSec)),
                 !.mm = Val(ParseInt(ytm.g[2]) - 1), !.dd = Val(1),
                 !.hh = Val(0), !.mi = Val(0), !.ss = Val(0), !.fff = Val(0)]
  ELSE e

\* time = ...; date = new Date(time)
WithTimeAndDate(e, time) == [e EXCEPT !.time = Val(time), !.date = Val(time)]

\* the DAY_TO_SEC component with the day length interval divides by
UnformatDtsFudgedDay(e, dts, refDate, now) ==
  IF dts.ok
  THEN WithTimeAndDate(e, PlusUnits(RefOrNow(refDate, now), ParseInt(dts.g[1]), IntervalDaySec))
  ELSE e

\* lines 178-182: the DAY_TO_SEC component
UnformatDts(e, dts, refDate, now) ==
  IF dts.ok
  THEN WithTimeAndDate(e, PlusUnits(RefOrNow(refDate, now), ParseInt(dts.g[1]), UnformatDaySec))
  ELSE e

\* lines 183-192: the DATE component, or the default date of a time
UnformatDate(e, dte, tms) ==
  IF dte.ok
  THEN [e EXCEPT !.yyyy = Val(ParseInt(dte.g[1])), !.mm = Val(ParseInt(dte.g[2]) - 1),
                 !.dd = Val(ParseInt(dte.g[3])),
                 !.hh = Val(0), !.mi = Val(0), !.ss = Val(0), !.fff = Val(0)]
  ELSE IF tms.ok /\ ~e.date.def
  THEN [e EXCEPT !.yyyy = Val(0), !.mm = Val(0), !.dd = Val(1)]
  ELSE e

\* lines 193-198: the TIME component
UnformatTime(e, tms) ==
  IF tms.ok
  THEN [e EXCEPT !.hh = Val(ParseInt(tms.g[1])), !.mi = Val(ParseInt(tms.g[2])),
                 !.ss = Val(ParseInt(tms.g[3])), !.fff = Val(ParseInt(tms.g[4]))]
  ELSE e

\* line 201: if (!time) time = 0
ZoneTimeBase(e) == IF Truthy(e.time) THEN e.time.v ELSE [day |-> 0, ms |-> 0]

\* lines 202-205: time += hh * 3.6e+6 ... for the fields that are defined
ZoneAddFields(time, e) ==
  MakeDate(time.day, time.ms + (IF e.hh.def THEN e.hh.v * 3600000 ELSE 0)
                             + (IF e.mi.def THEN e.mi.v * 60000 ELSE 0)
                             + (IF e.ss.def THEN e.ss.v * 1000 ELSE 0)
                             + (IF e.fff.def THEN e.fff.v ELSE 0))

\* line 206: the offset of the zone in ms
ZoneOffset(zns) ==
  (IF zns.g[1] = <<"-">> THEN -1 ELSE 1) * (ParseInt(zns.g[2]) * 3600000 + ParseInt(zns.g[3]) * 60000)

\* lines 207-208: if (time) time -= offset; else time = offset
ZoneApplyOffset(time, offset) ==
  IF Truthy(Val(time)) THEN MakeDate(time.day, time.ms - offset) ELSE MakeDate(0, offset)

\* lines 209-211: the date takes the time; the time fields are dropped
ZoneSetTime(e, time) ==
  [e EXCEPT !.time = Val(time), !.date = Val(time),
            !.hh = Undefined, !.mi = Undefined, !.ss = Undefined, !.fff = Undefined]

\* lines 200-212: the ZONE component, or the default date
UnformatZone(e, zns, now) ==
  IF zns.ok
  THEN ZoneSetTime(e, ZoneApplyOffset(ZoneAddFields(ZoneTimeBase(e), e), ZoneOffset(zns)))
  ELSE IF ~e.date.def THEN [e EXCEPT !.date = Val(now)]
  ELSE e

\* lines 213-220: the field setters, in the order of the source
UnformatSet(e, isUTC, off) ==
  SetIfDefined(
    SetIfDefined(
      SetIfDefined(
        SetIfDefined(
          SetIfDefined(
            SetIfDefined(
              SetIfDefined(e.date.v, "FullYear", e.yyyy, isUTC, off),
              "Month", e.mm, isUTC, off),
            "Date", e.dd, isUTC, off),
          "Hours", e.hh, isUTC, off),
        "Minutes", e.mi, isUTC, off),
      "Seconds", e.ss, isUTC, off),
    "Milliseconds", e.fff, isUTC, off)

\* line 170: nothing is defined yet
UnformatStart ==
  [date |-> NoDate, time |-> NoDate, yyyy |-> Undefined, mm |-> Undefined, dd |-> Undefined,
   hh |-> Undefined, mi |-> Undefined, ss |-> Undefined, fff |-> Undefined]

\* lines 170-212 for the matches of lines 164-168: the variables as they
\* stand before the field setters
UnformatFields(dte, tms, zns, ytm, dts, refDate, now) ==
  UnformatZone(
    UnformatTime(
      UnformatDate(
        UnformatDts(UnformatYtm(UnformatStart, ytm, refDate, now), dts, refDate, now),
        dte, tms),
      tms),
    zns, now)

\* lines 170-220 for the matches of lines 164-168
UnformatMatches(dte, tms, zns, ytm, dts, refDate, now, off) ==
  UnformatSet(UnformatFields(dte, tms, zns, ytm, dts, refDate, now), ~zns.ok, off)

\* the variables of unformat(rxs, formatted, refDate) on reaching line 213
unformatFields(rxs, formatted, refDate, now) ==
  UnformatFields(Attempt(rxs, "DATE_RX", formatted), Attempt(rxs, "TIME_RX", formatted),
                 Attempt(rxs, "ZONE_RX", formatted), Attempt(rxs, "YEAR_TO_MONTH_RX", formatted),
                 Attempt(rxs, "DAY_TO_SEC_RX", formatted), refDate, now)

\* unformat(rxs, formatted, refDate) called when the clock reads `now' on a
\* host whose timezone offset is `off'
unformat(rxs, formatted, refDate, now, off) ==
  UnformatMatches(Attempt(rxs, "DATE_RX", formatted), Attempt(rxs, "TIME_RX", formatted),
                  Attempt(rxs, "ZONE_RX", formatted), Attempt(rxs, "YEAR_TO_MONTH_RX", formatted),
                  Attempt(rxs, "DAY_TO_SEC_RX", formatted), refDate, now, off)

\* ------------------------------------------------------------------------
\* src/index.js: the static methods of MomentDB
\* ------------------------------------------------------------------------
\* JavaScript values that are passed to and returned from the methods.
Epoch == [day |-> 0, ms |-> 0]

DateV(t) == [type |-> "Date", t |-> t, s |-> <<>>]

StrV(s) == [type |-> "String", t |-> Epoch, s |-> s]

UndefinedV == [type |-> "undefined", t |-> Epoch, s |-> <<>>]

\* date that writes the local calendar date of a Date
dateLocalFields(arg, now, off) ==
  IF arg.type = "Date" THEN StrV(format(DATE, <<LocalTime(arg.t, off)>>, off))
  ELSE DateV(unformat({"DATE_RX"}, arg.s, UndefinedV, now, off))

date(arg, now, off) ==
  IF arg.type = "Date" THEN StrV(format(DATE, <<arg.t>>, off))
  ELSE DateV(unformat({"DATE_RX"}, arg.s, UndefinedV, now, off))

time(arg, excludeTimezone, now, off) ==
  IF arg.type = "Date"
  THEN StrV(format(IF excludeTimezone THEN TIME ELSE TIME \o <<" ">> \o ZONE, <<arg.t>>, off))
  ELSE DateV(unformat(IF excludeTimezone THEN {"TIME_RX"} ELSE {"TIME_RX", "ZONE_RX"},
                      arg.s, UndefinedV, now, off))

timestamp(arg, excludeTimezone, now, off) ==
  IF arg.type = "Date"
  THEN StrV(format(DATE \o <<" ">> \o TIME \o (IF excludeTimezone THEN <<>> ELSE <<" ">> \o ZONE),
                   <<arg.t>>, off))
  ELSE DateV(unformat(IF excludeTimezone THEN {"DATE_RX", "TIME_RX"}
                      ELSE {"DATE_RX", "TIME_RX", "ZONE_RX"},
                      arg.s, UndefinedV, now, off))

intervalYearToMonth(startDate, endDate, monthDate, now, off) ==
  IF startDate.type = "Date" /\ endDate.type = "Date" /\ monthDate.type = "Date"
  THEN StrV(format(YEAR_TO_MONTH, <<startDate.t, endDate.t, monthDate.t>>, off))
  ELSE DateV(unformat({"YEAR_TO_MONTH_RX"}, startDate.s, endDate, now, off))

intervalDayToSecond(startDate, endDate, timestampDate, now, off) ==
  IF startDate.type = "Date" /\ endDate.type = "Date" /\ timestampDate.type = "Date"
  THEN StrV(format(DAY_TO_SEC, <<startDate.t, endDate.t, timestampDate.t>>, off))
  ELSE DateV(unformat({"DAY_TO_SEC_RX", "TIME_RX"}, startDate.s, endDate, now, off))

\* ------------------------------------------------------------------------
\* Inputs of the calls
\* ------------------------------------------------------------------------
\* The largest of the small interval magnitudes (years, days) that are tried.
MaxSmallCount == 2

At(y, m, d, hh, mi, ss, fff) ==
  [day |-> DaysFromCivil(y, m, d), ms |-> hh * 3600000 + mi * 60000 + ss * 1000 + fff]

DaysInMonth(y, m) ==
  (IF m = 12 THEN DaysFromCivil(y + 1, 1, 1) ELSE DaysFromCivil(y, m + 1, 1)) - DaysFromCivil(y, m, 1)

\* What the system clock may read when a call is made.
Clock ==
  {At(2030, 1, 31, 12, 1, 20, 903), At(2030, 2, 3, 0, 0, 0, 0),
   At(2028, 2, 29, 23, 30, 0, 0), At(2029, 12, 31, 20, 0, 0, 0)}

\* getTimezoneOffset() of the host, in minutes: UTC+14:00, UTC+05:45, UTC,
\* UTC-07:00, UTC-12:00.
HostOffsets == {-840, -345, 0, 420, 720}

CivilDates ==
  {<<0, 1, 1>>, <<1900, 1, 1>>, <<1969, 12, 31>>, <<2028, 2, 29>>, <<2030, 1, 1>>,
   <<2030, 1, 31>>, <<9999, 12, 31>>, <<10000, 1, 1>>, <<-1, 12, 31>>}

TimesOfDay == {<<0, 0, 0, 0>>, <<3, 0, 0, 0>>, <<12, 1, 20, 903>>, <<20, 0, 0, 0>>, <<23, 59, 59, 999>>}

TextYears == {0, 50, 1900, 2028, 2030, 9999}

TextDays(y, m) == {1, 15, 28, DaysInMonth(y, m)}

TextDates == {<<1900, 2, 3>>, <<2028, 2, 29>>, <<2030, 1, 31>>, <<2030, 2, 15>>, <<2030, 12, 1>>}

\* Zones as <<sign, hours, minutes>>.
TextZones == {<<"+", 0, 0>>, <<"-", 7, 0>>, <<"+", 5, 45>>, <<"+", 14, 0>>, <<"-", 12, 0>>}

YearCounts == (0..MaxSmallCount) \cup {4, 130, 9999}

DayCounts == (0..MaxSmallCount) \cup {47482, 86400, 86401, 86402, 3652047}

TextDayCounts == (0..MaxSmallCount) \cup {47482, 3652047, 9999999}

IntervalInstants ==
  {At(1900, 1, 1, 0, 0, 0, 0), At(2030, 1, 1, 0, 0, 0, 0), At(2030, 1, 1, 23, 0, 0, 0),
   At(2030, 6, 15, 12, 1, 20, 903), At(2029, 12, 31, 20, 0, 0, 0), At(50, 3, 1, 0, 0, 0, 0)}

ExtractionInstants == {At(2030, 1, 15, 12, 1, 20, 903), At(2030, 12, 31, 23, 59, 59, 999), At(2030, 2, 1, 0, 0, 0, 0)}

\* Texts written digit by digit from their fields.
PowerOfTen(k) == CASE k = 0 -> 1 [] k = 1 -> 10 [] k = 2 -> 100 [] k = 3 -> 1000 [] k = 4 -> 10000
                   [] k = 5 -> 100000 [] k = 6 -> 1000000 [] k = 7 -> 10000000

FixedDigits(n, w) == [i \in 1..w |-> DigitChars[((n \div PowerOfTen(w - i)) % 10) + 1]]

Width(n) == Min({w \in 1..7 : n < PowerOfTen(w)})

PlainDigits(n) == FixedDigits(n, Width(n))

DateText(y, m, d) == FixedDigits(y, 4) \o <<"-">> \o FixedDigits(m, 2) \o <<"-">> \o FixedDigits(d, 2)

TimeText(hh, mi, ss, fff) ==
  FixedDigits(hh, 2) \o <<":">> \o FixedDigits(mi, 2) \o <<":">> \o FixedDigits(ss, 2)
    \o <<".">> \o FixedDigits(fff, 3)

ZoneText(z) == <<z[1]>> \o FixedDigits(z[2], 2) \o <<":">> \o FixedDigits(z[3], 2)

\* Texts that match none of the sub-patterns.
Garbage ==
  {<<>>, <<"x">>, <<"1", "2", ":", "0", "1">>, <<"2", "0", "3", "0", "/", "0", "1", "/", "3", "1">>}

\* The fields a call's arguments were written from (0 where a field is unused).
NoFields ==
  [y |-> 0, m |-> 0, d |-> 0, hh |-> 0, mi |-> 0, ss |-> 0, fff |-> 0, n |-> 0,
   zoned |-> FALSE, zs |-> "+", zh |-> 0, zm |-> 0, wellFormed |-> FALSE]

DateFields(cd) == [NoFields EXCEPT !.y = cd[1], !.m = cd[2], !.d = cd[3], !.wellFormed = TRUE]

WithTime(f, tod) == [f EXCEPT !.hh = tod[1], !.mi = tod[2], !.ss = tod[3], !.fff = tod[4], !.wellFormed = TRUE]

WithZone(f, z) == [f EXCEPT !.zoned = TRUE, !.zs = z[1], !.zh = z[2], !.zm = z[3]]

FieldsInstant(f) == At(f.y, f.m, f.d, f.hh, f.mi, f.ss, f.fff)

RefInstants == {At(2030, 2, 3, 0, 0, 0, 0), At(2031, 3, 31, 23, 59, 59, 999)}

\* The optional reference date of the interval decoders.
RefArgs == {UndefinedV} \cup {DateV(r) : r \in RefInstants}

\* ------------------------------------------------------------------------
\* The program: a caller that makes one call at a time
\* ------------------------------------------------------------------------
VARIABLES
  pc,    \* "idle": no call in progress; "done": call has returned ret;
         \* "back": the text returned by call was passed back and returned ret
  now,   \* the reading of the system clock
  off,   \* getTimezoneOffset() of the host
  call,  \* the last call: method, arguments and the fields they were written from
  ret    \* the value the last call returned

vars == <<pc, now, off, call, ret>>

NoCall == [op |-> "none", a1 |-> UndefinedV, a2 |-> UndefinedV, a3 |-> UndefinedV,
           excl |-> FALSE, in |-> NoFields]

\* The idle caller calls MomentDB[c.op](c.a1, ...) and gets the value r back.
Invoke(c, r) ==
  /\ pc' = "done"
  /\ call' = c
  /\ ret' = r
  /\ UNCHANGED <<now, off>>

Init ==
  /\ pc = "idle"
  /\ now \in Clock
  /\ off \in HostOffsets
  /\ call = NoCall
  /\ ret = UndefinedV

\* The clock moves between calls.
Tick ==
  /\ pc = "idle"
  /\ now' \in Clock \ {now}
  /\ UNCHANGED <<pc, off, call, ret>>

Call(op, a1, a2, a3, excl, in) ==
  [op |-> op, a1 |-> a1, a2 |-> a2, a3 |-> a3, excl |-> excl, in |-> in]

\* The calls that pass a Date to date, time and timestamp.
EncodeCalls(op, excls) ==
  {Call(op, DateV(FieldsInstant(WithTime(DateFields(cd), tod))), UndefinedV, UndefinedV, excl,
        WithTime(DateFields(cd), tod)) :
     cd \in CivilDates, tod \in TimesOfDay, excl \in excls}

GarbageCalls(op, excls, refs) ==
  {Call(op, StrV(g), ref, UndefinedV, excl, NoFields) : g \in Garbage, excl \in excls, ref \in refs}

DateDecodeCalls ==
  {Call("date", StrV(DateText(ymd[1], ymd[2], ymd[3])), UndefinedV, UndefinedV, FALSE, DateFields(ymd)) :
     ymd \in {x \in TextYears \X (1..12) \X (1..31) : x[3] \in TextDays(x[1], x[2])}}
    \cup GarbageCalls("date", {FALSE}, {UndefinedV})

TimeDecodeCalls ==
  {Call("time", StrV(TimeText(tod[1], tod[2], tod[3], tod[4])), UndefinedV, UndefinedV, excl,
        WithTime(NoFields, tod)) : tod \in TimesOfDay, excl \in BOOLEAN}
    \cup {Call("time", StrV(TimeText(tod[1], tod[2], tod[3], tod[4]) \o <<" ">> \o ZoneText(z)),
               UndefinedV, UndefinedV, excl, WithZone(WithTime(NoFields, tod), z)) :
            tod \in TimesOfDay, excl \in BOOLEAN, z \in TextZones}
    \cup GarbageCalls("time", BOOLEAN, {UndefinedV})

TimestampText(cd, tod) ==
  DateText(cd[1], cd[2], cd[3]) \o <<" ">> \o TimeText(tod[1], tod[2], tod[3], tod[4])

TimestampDecodeCalls ==
  {Call("timestamp", StrV(TimestampText(cd, tod)), UndefinedV, UndefinedV, excl,
        WithTime(DateFields(cd), tod)) : cd \in TextDates, tod \in TimesOfDay, excl \in BOOLEAN}
    \cup {Call("timestamp", StrV(TimestampText(cd, tod) \o <<" ">> \o ZoneText(z)),
               UndefinedV, UndefinedV, excl, WithZone(WithTime(DateFields(cd), tod), z)) :
            cd \in TextDates, tod \in TimesOfDay, excl \in BOOLEAN, z \in TextZones}
    \cup GarbageCalls("timestamp", BOOLEAN, {UndefinedV})

IntervalYearToMonthEncodeCalls ==
  {Call("intervalYearToMonth", DateV(start), DateV(end), DateV(ext), FALSE, NoFields) :
     start \in IntervalInstants, end \in IntervalInstants, ext \in ExtractionInstants}

Signed(sign, n) == IF sign = "-" THEN -n ELSE n

CountDigits(n, width, padded) == IF padded THEN FixedDigits(n, width) ELSE PlainDigits(n)

IntervalYearToMonthDecodeCalls ==
  {Call("intervalYearToMonth",
        StrV(<<x[1]>> \o CountDigits(x[2], 4, x[4]) \o <<"-">> \o FixedDigits(x[3], 2)),
        ref, UndefinedV, FALSE,
        [NoFields EXCEPT !.n = Signed(x[1], x[2]), !.m = x[3], !.wellFormed = TRUE]) :
     x \in {"+", "-"} \X YearCounts \X (1..12) \X BOOLEAN, ref \in RefArgs}
    \cup GarbageCalls("intervalYearToMonth", {FALSE}, RefArgs)

IntervalDayToSecondEncodeCalls ==
  {Call("intervalDayToSecond", DateV(start), DateV([day |-> start.day + x[2] * x[1], ms |-> x[3]]),
        DateV(ext), FALSE, [NoFields EXCEPT !.n = x[1]]) :
     start \in {At(2030, 1, 1, 0, 0, 0, 0), At(2030, 1, 1, 12, 1, 20, 903), At(1900, 1, 1, 0, 0, 0, 0)},
     x \in DayCounts \X {-1, 1} \X {0, 43280903}, ext \in ExtractionInstants}

IntervalDayToSecondDecodeCalls ==
  {Call("intervalDayToSecond",
        StrV(<<x[1]>> \o CountDigits(x[2], 7, x[4]) \o <<" ">>
               \o TimeText(x[3][1], x[3][2], x[3][3], x[3][4])),
        ref, UndefinedV, FALSE,
        WithTime([NoFields EXCEPT !.n = Signed(x[1], x[2])], x[3])) :
     x \in {"+", "-"} \X TextDayCounts \X TimesOfDay \X BOOLEAN, ref \in RefArgs}
    \cup GarbageCalls("intervalDayToSecond", {FALSE}, RefArgs)

DateEncode ==
  /\ pc = "idle"
  /\ \E c \in EncodeCalls("date", {FALSE}) :
       Invoke(c, date(c.a1, now, off))

DateDecode ==
  /\ pc = "idle"
  /\ \E c \in DateDecodeCalls :
       Invoke(c, date(c.a1, now, off))

TimeEncode ==
  /\ pc = "idle"
  /\ \E c \in EncodeCalls("time", BOOLEAN) :
       Invoke(c, time(c.a1, c.excl, now, off))

TimeDecode ==
  /\ pc = "idle"
  /\ \E c \in TimeDecodeCalls :
       Invoke(c, time(c.a1, c.excl, now, off))

TimestampEncode ==
  /\ pc = "idle"
  /\ \E c \in EncodeCalls("timestamp", BOOLEAN) :
       Invoke(c, timestamp(c.a1, c.excl, now, off))

TimestampDecode ==
  /\ pc = "idle"
  /\ \E c \in TimestampDecodeCalls :
       Invoke(c, timestamp(c.a1, c.excl, now, off))

IntervalYearToMonthEncode ==
  /\ pc = "idle"
  /\ \E c \in IntervalYearToMonthEncodeCalls :
       Invoke(c, intervalYearToMonth(c.a1, c.a2, c.a3, now, off))

IntervalYearToMonthDecode ==
  /\ pc = "idle"
  /\ \E c \in IntervalYearToMonthDecodeCalls :
       Invoke(c, intervalYearToMonth(c.a1, c.a2, c.a3, now, off))

IntervalDayToSecondEncode ==
  /\ pc = "idle"
  /\ \E c \in IntervalDayToSecondEncodeCalls :
       Invoke(c, intervalDayToSecond(c.a1, c.a2, c.a3, now, off))

IntervalDayToSecondDecode ==
  /\ pc = "idle"
  /\ \E c \in IntervalDayToSecondDecodeCalls :
       Invoke(c, intervalDayToSecond(c.a1, c.a2, c.a3, now, off))

\* The text a date, time or timestamp call returned is passed back to the
\* same method (README, "Converting formatted dates/times into ES Dates").
DecodeBack ==
  /\ pc = "done"
  /\ call.op \in {"date", "time", "timestamp"}
  /\ call.a1.type = "Date"
  /\ pc' = "back"
  /\ ret' = CASE call.op = "date" -> date(ret, now, off)
              [] call.op = "time" -> time(ret, call.excl, now, off)
              [] call.op = "timestamp" -> timestamp(ret, call.excl, now, off)
  /\ UNCHANGED <<now, off, call>>

\* The caller drops the result and is ready for the next call.
Return ==
  /\ pc \in {"done", "back"}
  /\ pc' = "idle"
  /\ call' = NoCall
  /\ ret' = UndefinedV
  /\ UNCHANGED <<now, off>>

Next ==
  \/ Tick
  \/ DateEncode
  \/ DateDecode
  \/ TimeEncode
  \/ TimeDecode
  \/ TimestampEncode
  \/ TimestampDecode
  \/ IntervalYearToMonthEncode
  \/ IntervalYearToMonthDecode
  \/ IntervalDayToSecondEncode
  \/ IntervalDayToSecondDecode
  \/ DecodeBack
  \/ Return

Spec == Init /\ [][Next]_vars

\* ------------------------------------------------------------------------
\* Properties
\* ------------------------------------------------------------------------
Returned(op, argType) == pc = "done" /\ call.op = op /\ call.a1.type = argType

\* The UTC and the local calendar date of t are the same day.
SameCalendarView(t) == LocalTime(t, off).day = t.day

\* The magnitude digits of an interval text: what stands between the sign
\* and the separator sep.
MagnitudeDigits(text, sep) ==
  SubSeq(text, 2, Min({i \in 2..Len(text) : text[i] = sep}) - 1)

\* The sub-patterns the decoder of a call attempts.
AttemptedRxs(op, excl) ==
  CASE op = "date" -> {DATE_RX}
    [] op = "time" -> IF excl THEN {TIME_RX} ELSE {TIME_RX, ZONE_RX}
    [] op = "timestamp" -> IF excl THEN {DATE_RX, TIME_RX} ELSE {DATE_RX, TIME_RX, ZONE_RX}
    [] op = "intervalYearToMonth" -> {YEAR_TO_MONTH_RX}
    [] op = "intervalDayToSecond" -> {DAY_TO_SEC_RX, TIME_RX}

\* C1: date('YYYY-MM-DD') of a valid calendar date returns the instant
\* YYYY-MM-DDT00:00:00.000Z, whatever the system clock reads.
C1_DateDecodeIsUTCMidnight ==
  (Returned("date", "String") /\ call.in.wellFormed)
    => ret = DateV(At(call.in.y, call.in.m, call.in.d, 0, 0, 0, 0))

\* C2: date(instant) of an instant whose UTC year is within 0..9999 returns
\* the 4-digit UTC year, 2-digit UTC month and 2-digit UTC day joined by '-',
\* whatever the timezone offset of the host.
C2_DateEncodeUTCFields ==
  (Returned("date", "Date") /\ call.in.y \in 0..9999)
    => ret = StrV(DateText(call.in.y, call.in.m, call.in.d))

C2_Witness ==
  /\ Returned("date", "Date")
  /\ call.a1 = DateV(At(2030, 1, 1, 0, 0, 0, 0))
  /\ off = 420
  /\ ret = StrV(<<"2", "0", "3", "0", "-", "0", "1", "-", "0", "1">>)

\* C3: timestamp(timestamp(i)) with the zone returns an instant equal to i,
\* for every instant i (here: of a UTC year within 0..9999) on a host with
\* a fixed offset.
C3_ZonedTimestampRoundTrip ==
  (pc = "back" /\ call.op = "timestamp" /\ ~call.excl /\ call.in.y \in 0..9999)
    => ret = call.a1

\* C4: the sign an interval encoder writes is '+' if and only if end is at or
\* after the midnight start is truncated to.
C4_IntervalSignLaw ==
  (/\ pc = "done"
   /\ call.op \in {"intervalYearToMonth", "intervalDayToSecond"}
   /\ call.a1.type = "Date"
   /\ SameCalendarView(call.a1.t) /\ SameCalendarView(call.a2.t))
    => (ret.s[1] = "+" <=> ~Before(call.a2.t, [day |-> call.a1.t.day, ms |-> 0]))

\* C5: when the midnights start and end are truncated to are N days apart,
\* N in 0..3652047, intervalDayToSecond writes the magnitude N.
C5_DayCountExact ==
  (/\ Returned("intervalDayToSecond", "Date")
   /\ SameCalendarView(call.a1.t) /\ SameCalendarView(call.a2.t)
   /\ Abs(call.a2.t.day - call.a1.t.day) \in 0..3652047)
    => ParseDigits(MagnitudeDigits(ret.s, " "), 0) = Abs(call.a2.t.day - call.a1.t.day)

\* C6: the magnitude of an interval text is a plain decimal number, without
\* leading zeros.
C6_UnpaddedMagnitude ==
  (/\ pc = "done"
   /\ call.op \in {"intervalYearToMonth", "intervalDayToSecond"}
   /\ call.a1.type = "Date")
    => LET mag == MagnitudeDigits(ret.s, IF call.op = "intervalDayToSecond" THEN " " ELSE "-")
       IN Len(mag) = 1 \/ mag[1] # "0"

\* C7: intervalYearToMonth('+-Y-MM', reference) returns an instant whose UTC
\* month is MM, whose UTC day is 1 and whose UTC time is 00:00:00.000,
\* for every reference, given or defaulted to the clock.
C7_YearToMonthDecodeFields ==
  (Returned("intervalYearToMonth", "String") /\ call.in.wellFormed)
    => /\ ret.type = "Date"
       /\ CivilFromDays(ret.t.day).m = call.in.m
       /\ CivilFromDays(ret.t.day).d = 1
       /\ ret.t.ms = 0

\* C8: intervalDayToSecond('+-D HH:MI:SS.FFF', r) returns the instant whose
\* UTC date is the UTC date of r + D days (D with its sign) and whose UTC
\* time of day is HH:MI:SS.FFF; r is the clock when no reference is given.
C8_DayToSecondDecode ==
  (Returned("intervalDayToSecond", "String") /\ call.in.wellFormed)
    => LET r == IF call.a2.type = "Date" THEN call.a2.t ELSE now
       IN ret = DateV([day |-> r.day + call.in.n,
                       ms  |-> call.in.hh * 3600000 + call.in.mi * 60000
                                 + call.in.ss * 1000 + call.in.fff])

C8_Witness ==
  /\ Returned("intervalDayToSecond", "String")
  /\ call.a1.s = <<"-", "4", "7", "4", "8", "2", " ", "1", "2", ":", "0", "1", ":", "2", "0",
                   ".", "9", "0", "3">>
  /\ call.a2 = DateV(At(2030, 2, 3, 0, 0, 0, 0))
  /\ ret = DateV(At(1900, 2, 3, 12, 1, 20, 903))

\* C9: the zoned time and timestamp encoders end their text with a space, a
\* sign, the absolute host offset as 2-digit hours, ':' and 2-digit minutes;
\* the sign is '+' when local time is ahead of UTC and '-' when it is behind.
C9_TimezoneSuffix ==
  (pc = "done" /\ call.op \in {"time", "timestamp"} /\ call.a1.type = "Date" /\ ~call.excl)
    => /\ Len(ret.s) >= 7
       /\ SubSeq(ret.s, Len(ret.s) - 6, Len(ret.s) - 6) = <<" ">>
       /\ ret.s[Len(ret.s) - 5] \in {"+", "-"}
       /\ off < 0 => ret.s[Len(ret.s) - 5] = "+"
       /\ off > 0 => ret.s[Len(ret.s) - 5] = "-"
       /\ SubSeq(ret.s, Len(ret.s) - 4, Len(ret.s))
            = FixedDigits(Abs(off) \div 60, 2) \o <<":">> \o FixedDigits(Abs(off) % 60, 2)

C9_Witness ==
  /\ Returned("time", "Date")
  /\ ~call.excl
  /\ off = 420
  /\ call.in.hh = 20
  /\ ret = StrV(<<"1", "3", ":", "0", "0", ":", "0", "0", ".", "0", "0", "0", " ",
                  "-", "0", "7", ":", "0", "0">>)

\* C10: a decode call whose text matches none of the sub-patterns attempted
\* for its kind signals a ParseError and returns no instant.
C10_DecodeFailureReported ==
  (/\ pc = "done"
   /\ call.a1.type = "String"
   /\ \A rx \in AttemptedRxs(call.op, call.excl) : ~RxMatch(rx, call.a1.s).ok)
    => ret.type = "ParseError"

\* The value of the variable `time' of unformat when the decoder of the
\* zoned call reaches the field setters.
ZonedDecodeTime ==
  unformatFields(IF call.op = "time" THEN {"TIME_RX", "ZONE_RX"} ELSE {"DATE_RX", "TIME_RX", "ZONE_RX"},
                 call.a1.s, call.a2, now).time

\* C11: when the decoded text carries a zone, the millisecond value given to
\* the result before the date fields are set is the time of day
\* (HH*3600000 + MI*60000 + SS*1000 + FFF) minus the signed offset of the
\* zone, for every time of day, 00:00:00.000 included.
C11_ZoneOffsetSubtracted ==
  (/\ pc = "done"
   /\ call.op \in {"time", "timestamp"}
   /\ call.a1.type = "String"
   /\ ~call.excl /\ call.in.wellFormed /\ call.in.zoned)
    => ZonedDecodeTime
         = Val(MakeDate(0, call.in.hh * 3600000 + call.in.mi * 60000 + call.in.ss * 1000 + call.in.fff
                             - Signed(call.in.zs, call.in.zh * 3600000 + call.in.zm * 60000)))

\* The reference of a decode call: the reference date given, else the clock.
Reference == IF call.a2.type = "Date" THEN call.a2.t ELSE now

\* The instant y years after r, a year being 365 days and extraSec seconds.
YearsAfter(r, y, extraSec) ==
  MakeDate(r.day + 365 * y + ((y * extraSec) \div 86400), r.ms + ((y * extraSec) % 86400) * 1000)

\* The value of the variable `date' of unformat when the year-to-month
\* decoder reaches the field setters.
YearToMonthShifted == unformatFields({"YEAR_TO_MONTH_RX"}, call.a1.s, call.a2, now).date

\* C12 as stated: intervalYearToMonth('+-Y-MM', reference) shifts the
\* reference by exactly Y * 31,536,000,000 ms (Y years of 365 days) before
\* it overwrites the fields, and the UTC year it returns is the UTC year of
\* the reference so shifted.
C12_YearShift365Days ==
  (Returned("intervalYearToMonth", "String") /\ call.in.wellFormed)
    => /\ YearToMonthShifted = Val(YearsAfter(Reference, call.in.n, 0))
       /\ CivilFromDays(ret.t.day).y = CivilFromDays(YearsAfter(Reference, call.in.n, 0).day).y

\* C12 amended: intervalYearToMonth('+-Y-MM', reference), Y of 1 to 4 digits
\* and MM in 01..12, shifts the reference by exactly Y * 31,556,952,000 ms
\* (Y years of 365 days 5 h 49 min 12 s) before it overwrites the fields, and
\* the UTC year it returns is the UTC year of the reference so shifted.
C12_YearShiftMeanYear ==
  (Returned("intervalYearToMonth", "String") /\ call.in.wellFormed)
    => /\ YearToMonthShifted = Val(YearsAfter(Reference, call.in.n, 20952))
       /\ ret.type = "Date"
       /\ CivilFromDays(ret.t.day).y = CivilFromDays(YearsAfter(Reference, call.in.n, 20952).day).y

C12_Witness ==
  /\ Returned("intervalYearToMonth", "String")
  /\ call.a1.s = <<"+", "1", "3", "0", "-", "0", "2">>
  /\ call.a2 = DateV(At(2030, 2, 3, 0, 0, 0, 0))
  /\ YearToMonthShifted = Val(At(2160, 2, 3, 12, 36, 0, 0))
  /\ ret = DateV(At(2160, 2, 1, 0, 0, 0, 0))

====
